---- MODULE Spec2Model ----
(***************************************************************************)
(* Model of the RAG backend's core contracts:                              *)
(*   - the user-scoped similarity search match_documents together with     *)
(*     the row-level security policies of document_chunks (SQL migration), *)
(*   - the authenticate / optionalAuth request middlewares,                *)
(*   - the Redis configuration module and the best-effort cache get/set.   *)
(* The three subsystems share no state; each has its own specification     *)
(* (SpecRetrieval, SpecAuth, SpecCache) over the module's variables.       *)
(***************************************************************************)
EXTENDS Integers, Sequences, FiniteSets

VARIABLES
    chunks,       \* rows of table document_chunks
    lastQuery,    \* the last match_documents call: its arguments and result
    request,      \* the HTTP request in flight: headers, NODE_ENV, provider answer
    auth,         \* authenticate's run on the request: pc, req.userId, next calls
    opt,          \* optionalAuth's run on the same request
    client,       \* redis.js module variable `client`
    redisAvailable, \* redis.js module variable `redisAvailable`
    conn,         \* state of the redis client library object and its socket
    store,        \* contents of the external key/value store
    hist,         \* history of initRedis calls and connection attempts
    lastOp        \* the last cache get/set call: the state it saw and its result

vars == <<chunks, lastQuery, request, auth, opt,
          client, redisAvailable, conn, store, hist, lastOp>>

Min(a, b) == IF a < b THEN a ELSE b

(***************************************************************************)
(* ----------------------- Scoped retrieval (SQL) ------------------------ *)
(***************************************************************************)

\* Bounds of the retrieval model.
MaxChunks == 2
MaxCount == 2

\* SQL NULL for uuid columns and parameters.
NULL == "NULL"
Users == {"u1", "u2"}
ChunkIds == 1..MaxChunks

\* Embeddings: the migration fixes vector(384); the model keeps two
\* components and only non-zero vectors of integral length, so that the
\* cosine of every pair is an exact multiple of 1/100.
Embeddings == {<<1, 0>>, <<3, 4>>, <<4, 3>>}
\* match_threshold values, in hundredths (0.0, 0.8, 0.96, 1.0, 1.2).
Thresholds == {0, 80, 96, 100, 120}
Counts == 0..MaxCount

Dot(a, b) == a[1] * b[1] + a[2] * b[2]
Norm(a) == CHOOSE n \in 0..8 : n * n = Dot(a, a)

\* pgvector's `a <=> b`: cosine distance 1 - cos(a, b), in hundredths.
CosineDistance(a, b) == 100 - ((100 * Dot(a, b)) \div (Norm(a) * Norm(b)))

\* `1 - (embedding <=> query_embedding) AS similarity`, in hundredths.
Similarity(a, b) == 100 - CosineDistance(a, b)

\* SQL `x = y` used as a condition: true only when both are non-NULL and equal.
SqlEq(x, y) == x # NULL /\ y # NULL /\ x = y

\* Policies chunks_select / chunks_insert / chunks_delete: auth.uid() = user_id.
ChunksPolicy(uid, row) == SqlEq(uid, row.user_id)

\* The database roles that call: a signed-in user (auth.uid() = the user),
\* an anonymous caller (auth.uid() NULL), both subject to row level security,
\* and the table owner / a BYPASSRLS role, which row level security that is
\* enabled but not forced does not restrict and which carries no user identity.
Callers ==
    [uid : Users \cup {NULL}, bypassrls : {FALSE}] \cup [uid : {NULL}, bypassrls : {TRUE}]

\* Rows a SELECT issued by `caller` can see (row level security is enabled
\* and chunks_select is the SELECT policy; match_documents is not SECURITY
\* DEFINER, so it reads as its caller).
RlsVisibleNoPolicy(table, caller) == table
RlsVisible(table, caller) ==
    IF caller.bypassrls THEN table ELSE {row \in table : ChunksPolicy(caller.uid, row)}

\* The WHERE clause of match_documents.
WherePredicateNoOwner(row, query_embedding, match_threshold, p_user_id) ==
    Similarity(row.embedding, query_embedding) > match_threshold
WherePredicateGE(row, query_embedding, match_threshold, p_user_id) ==
    /\ (p_user_id = NULL \/ SqlEq(row.user_id, p_user_id))
    /\ Similarity(row.embedding, query_embedding) >= match_threshold
WherePredicate(row, query_embedding, match_threshold, p_user_id) ==
    /\ (p_user_id = NULL \/ SqlEq(row.user_id, p_user_id))
    /\ Similarity(row.embedding, query_embedding) > match_threshold

\* All sequences that enumerate the finite set S without repetition.
Permutations(S) ==
    {s \in [1..Cardinality(S) -> S] : \A i, j \in 1..Cardinality(S) : i # j => s[i] # s[j]}

\* ORDER BY embedding <=> query_embedding: every ordering of the rows by
\* ascending distance; rows at equal distance come in an unspecified order.
OrderBy(rows, query_embedding) ==
    {s \in Permutations(rows) :
        \A i \in 1..(Len(s) - 1) :
            CosineDistance(s[i].embedding, query_embedding)
                <= CosineDistance(s[i + 1].embedding, query_embedding)}

\* LIMIT match_count.
Limit(s, match_count) == SubSeq(s, 1, Min(match_count, Len(s)))

\* The SELECT list: id, (content, metadata,) similarity.
SelectList(s, query_embedding) ==
    [i \in 1..Len(s) |->
        [id |-> s[i].id, similarity |-> Similarity(s[i].embedding, query_embedding)]]

\* The results match_documents can return to `caller`.
match_documents(table, caller, query_embedding, match_threshold, match_count, p_user_id) ==
    LET eligible == {row \in RlsVisible(table, caller) :
                        WherePredicate(row, query_embedding, match_threshold, p_user_id)}
    IN  {SelectList(Limit(s, match_count), query_embedding) :
            s \in OrderBy(eligible, query_embedding)}

NoQuery ==
    [called |-> FALSE, caller |-> [uid |-> NULL, bypassrls |-> FALSE],
     query_embedding |-> <<1, 0>>, match_threshold |-> 0, match_count |-> 0, p_user_id |-> NULL, result |-> <<>>]

\* After the migration: the rows that existed before the user_id column was
\* added carry user_id NULL.
RetrievalInit ==
    /\ chunks \in {S \in SUBSET [id : ChunkIds, user_id : {NULL}, embedding : Embeddings] :
                        \A r1, r2 \in S : r1.id = r2.id => r1 = r2}
    /\ lastQuery = NoQuery

authVars == <<request, auth, opt>>
cacheVars == <<client, redisAvailable, conn, store, hist, lastOp>>

\* INSERT INTO document_chunks by a signed-in user (policy chunks_insert).
InsertChunk ==
    /\ lastQuery = NoQuery
    /\ \E uid \in Users, id \in ChunkIds, e \in Embeddings :
        LET row == [id |-> id, user_id |-> uid, embedding |-> e]
        IN  /\ \A r \in chunks : r.id # id
            /\ ChunksPolicy(uid, row)
            /\ chunks' = chunks \cup {row}
            /\ UNCHANGED <<lastQuery, authVars, cacheVars>>

\* DELETE FROM document_chunks by a signed-in user (policy chunks_delete).
DeleteChunk ==
    /\ lastQuery = NoQuery
    /\ \E uid \in Users, row \in chunks :
        /\ ChunksPolicy(uid, row)
        /\ chunks' = chunks \ {row}
        /\ UNCHANGED <<lastQuery, authVars, cacheVars>>

\* A call of match_documents: the statement runs on the table as it is and
\* its rows are held for the caller. Statements are taken one at a time, so
\* a held result is always read against the table it was computed from.
MatchDocuments ==
    /\ lastQuery = NoQuery
    /\ \E caller \in Callers, q \in Embeddings, t \in Thresholds,
          n \in Counts, p \in Users \cup {NULL} :
        \E res \in match_documents(chunks, caller, q, t, n, p) :
            /\ lastQuery' = [called |-> TRUE, caller |-> caller, query_embedding |-> q,
                             match_threshold |-> t, match_count |-> n,
                             p_user_id |-> p, result |-> res]
            /\ UNCHANGED <<chunks, authVars, cacheVars>>

\* The rows are handed to the caller.
ReturnRows ==
    /\ lastQuery.called
    /\ lastQuery' = NoQuery
    /\ UNCHANGED <<chunks, authVars, cacheVars>>

(***************************************************************************)
(* --------------------- Identity resolver (middleware) ------------------ *)
(***************************************************************************)

\* Header values and identifiers are sequences of one-character strings.
\* JavaScript `undefined` (an absent header, an unset req.userId, no user).
Undefined == <<"undefined">>

Rep(c, n) == [i \in 1..n |-> c]

\* `if (x)` on a header value: absent and the empty string are falsy.
Truthy(x) == x # Undefined /\ x # <<>>

BearerPrefix == <<"B", "e", "a", "r", "e", "r", " ">>

\* authHeader.startsWith('Bearer ')
StartsWith(s, prefix) == Len(s) >= Len(prefix) /\ SubSeq(s, 1, Len(prefix)) = prefix

HexDigits ==
    {"0", "1", "2", "3", "4", "5", "6", "7", "8", "9",
     "a", "b", "c", "d", "e", "f", "A", "B", "C", "D", "E", "F"}

\* /^[0-9a-f]{8}-[0-9a-f]{4}-[0-9a-f]{4}-[0-9a-f]{4}-[0-9a-f]{12}$/i .test(s)
UuidRegexTest(s) ==
    /\ Len(s) = 36
    /\ \A i \in 1..36 : IF i \in {9, 14, 19, 24} THEN s[i] = "-" ELSE s[i] \in HexDigits

UuidLower ==
    Rep("a", 8) \o <<"-">> \o Rep("1", 4) \o <<"-">> \o Rep("4", 4) \o <<"-">>
        \o Rep("b", 4) \o <<"-">> \o Rep("0", 12)
UuidUpper ==
    Rep("F", 8) \o <<"-">> \o Rep("2", 4) \o <<"-">> \o Rep("4", 4) \o <<"-">>
        \o Rep("A", 4) \o <<"-">> \o Rep("9", 12)
UuidProvider ==
    Rep("c", 8) \o <<"-">> \o Rep("3", 4) \o <<"-">> \o Rep("4", 4) \o <<"-">>
        \o Rep("d", 4) \o <<"-">> \o Rep("7", 12)

\* Values of the X-User-Id header.
XUserIdValues ==
    { Undefined,                                         \* header absent
      <<>>,                                              \* header present, empty
      <<"n", "o", "t", "-", "a", "-", "u", "u", "i", "d">>,
      UuidLower,
      UuidUpper,
      [UuidLower EXCEPT ![3] = "g"],                     \* not a hex digit
      [UuidLower EXCEPT ![9] = "0"],                     \* a dash missing
      UuidLower \o <<"0">>,                              \* trailing character
      <<"x">> \o UuidLower }                             \* leading character

\* Values of the Authorization header.
AuthorizationValues ==
    { Undefined,
      <<>>,
      BearerPrefix \o <<"t", "1">>,
      BearerPrefix,                                      \* 'Bearer ' with an empty token
      <<"b", "e", "a", "r", "e", "r", " ", "t", "1">>,
      <<"B", "a", "s", "i", "c", " ", "t", "1">> }

\* process.env.NODE_ENV; "undefined" stands for the variable being unset.
NodeEnvs == {"production", "development", "undefined"}

\* What supabase.auth.getUser(token) does: it throws, or it resolves to
\* { data: { user }, error } with either an error and no user, or no error
\* and a user (or no user).
VerifyOutcomes ==
    { [throws |-> TRUE, error |-> FALSE, user |-> Undefined],
      [throws |-> FALSE, error |-> TRUE, user |-> Undefined],
      [throws |-> FALSE, error |-> FALSE, user |-> Undefined],
      [throws |-> FALSE, error |-> FALSE, user |-> UuidProvider],
      [throws |-> FALSE, error |-> FALSE, user |-> UuidLower] }

Requests ==
    [authorization : AuthorizationValues, xUserId : XUserIdValues,
     nodeEnv : NodeEnvs, verification : VerifyOutcomes]

\* next() and next(new AppError(message, status)).
NoError == [status |-> 0, message |-> "none"]
AppError(message, status) == [status |-> status, message |-> message]

\* authHeader && authHeader.startsWith('Bearer ')
HasBearer(r) == Truthy(r.authorization) /\ StartsWith(r.authorization, BearerPrefix)

\* authenticate without a bearer token: the X-User-Id fallback and the final throw.
AuthenticateFallbackAnyEnv(r) ==
    IF Truthy(r.xUserId)
    THEN IF ~UuidRegexTest(r.xUserId)
         THEN [userId |-> Undefined, next |-> <<AppError("Invalid user ID format", 400)>>]
         ELSE [userId |-> r.xUserId, next |-> <<NoError>>]
    ELSE [userId |-> Undefined,
          next |-> <<AppError("Authentication required. Please sign in.", 401)>>]
AuthenticateFallback(r) ==
    IF r.nodeEnv # "production" /\ Truthy(r.xUserId)
    THEN IF ~UuidRegexTest(r.xUserId)
         THEN [userId |-> Undefined, next |-> <<AppError("Invalid user ID format", 400)>>]
         ELSE [userId |-> r.xUserId, next |-> <<NoError>>]
    ELSE [userId |-> Undefined,
          next |-> <<AppError("Authentication required. Please sign in.", 401)>>]

\* authenticate after supabase.auth.getUser(token) has settled.
AuthenticateVerifiedFallsBack(r) ==
    IF r.verification.throws \/ r.verification.error \/ r.verification.user = Undefined
    THEN AuthenticateFallback(r)
    ELSE [userId |-> r.verification.user, next |-> <<NoError>>]
AuthenticateVerifiedNoReturn(r) ==
    IF r.verification.throws
    THEN [userId |-> Undefined, next |-> <<AppError("Authentication failed", 401)>>]
    ELSE IF r.verification.error \/ r.verification.user = Undefined
    THEN [userId |-> Undefined,
          next |-> <<AppError("Invalid or expired authentication token", 401)>>]
    ELSE [userId |-> r.verification.user,
          next |-> <<NoError>> \o AuthenticateFallback(r).next]
AuthenticateVerified(r) ==
    IF r.verification.throws
    THEN [userId |-> Undefined, next |-> <<AppError("Authentication failed", 401)>>]
    ELSE IF r.verification.error \/ r.verification.user = Undefined
    THEN [userId |-> Undefined,
          next |-> <<AppError("Invalid or expired authentication token", 401)>>]
    ELSE [userId |-> r.verification.user, next |-> <<NoError>>]

\* optionalAuth without a bearer token.
OptionalFallbackNoRegex(r) ==
    IF r.nodeEnv # "production" /\ Truthy(r.xUserId)
    THEN [userId |-> r.xUserId, next |-> <<NoError>>]
    ELSE [userId |-> Undefined, next |-> <<NoError>>]
OptionalFallback(r) ==
    IF r.nodeEnv # "production" /\ Truthy(r.xUserId) /\ UuidRegexTest(r.xUserId)
    THEN [userId |-> r.xUserId, next |-> <<NoError>>]
    ELSE [userId |-> Undefined, next |-> <<NoError>>]

\* optionalAuth after supabase.auth.getUser(token) has settled.
OptionalVerifiedRethrows(r) ==
    IF r.verification.throws
    THEN [userId |-> Undefined, next |-> <<AppError("Authentication failed", 401)>>]
    ELSE [userId |-> r.verification.user, next |-> <<NoError>>]
OptionalVerified(r) ==
    IF r.verification.throws
    THEN [userId |-> Undefined, next |-> <<NoError>>]     \* catch: next()
    ELSE IF r.verification.user # Undefined
    THEN [userId |-> r.verification.user, next |-> <<NoError>>]
    ELSE [userId |-> Undefined, next |-> <<NoError>>]

\* A middleware's run on the request: where it is, what it has attached to
\* req.userId, the calls of next it has made, the verification calls issued.
Fresh == [pc |-> "start", userId |-> Undefined, next |-> <<>>, verifyCalls |-> 0]
Finished(run) == run.pc = "done"

NoRequest ==
    [authorization |-> Undefined, xUserId |-> Undefined, nodeEnv |-> "undefined",
     verification |-> [throws |-> FALSE, error |-> FALSE, user |-> Undefined]]

retrievalVars == <<chunks, lastQuery>>

\* The server is up and no request has arrived.
AuthInit ==
    /\ request = NoRequest
    /\ auth = [Fresh EXCEPT !.pc = "idle"]
    /\ opt = [Fresh EXCEPT !.pc = "idle"]

\* A request arrives; both middlewares are run on it, each on its own req.
NewRequest ==
    /\ auth.pc \in {"idle", "done"}
    /\ opt.pc \in {"idle", "done"}
    /\ request' \in Requests
    /\ auth' = Fresh
    /\ opt' = Fresh
    /\ UNCHANGED <<retrievalVars, cacheVars>>

\* authenticate up to its first await, or to its end when there is none.
AuthenticateBegin ==
    /\ auth.pc = "start"
    /\ IF HasBearer(request)
       THEN auth' = [auth EXCEPT !.pc = "await", !.verifyCalls = @ + 1]
       ELSE LET out == AuthenticateFallback(request)
            IN  auth' = [auth EXCEPT !.pc = "done", !.userId = out.userId,
                                     !.next = @ \o out.next]
    /\ UNCHANGED <<request, opt, retrievalVars, cacheVars>>

\* authenticate from the settled getUser promise to its end.
AuthenticateResume ==
    /\ auth.pc = "await"
    /\ LET out == AuthenticateVerified(request)
       IN  auth' = [auth EXCEPT !.pc = "done", !.userId = out.userId,
                                !.next = @ \o out.next]
    /\ UNCHANGED <<request, opt, retrievalVars, cacheVars>>

\* optionalAuth up to its first await, or to its end when there is none.
OptionalAuthBegin ==
    /\ opt.pc = "start"
    /\ IF HasBearer(request)
       THEN opt' = [opt EXCEPT !.pc = "await", !.verifyCalls = @ + 1]
       ELSE LET out == OptionalFallback(request)
            IN  opt' = [opt EXCEPT !.pc = "done", !.userId = out.userId,
                                   !.next = @ \o out.next]
    /\ UNCHANGED <<request, auth, retrievalVars, cacheVars>>

\* optionalAuth from the settled getUser promise to its end.
OptionalAuthResume ==
    /\ opt.pc = "await"
    /\ LET out == OptionalVerified(request)
       IN  opt' = [opt EXCEPT !.pc = "done", !.userId = out.userId,
                              !.next = @ \o out.next]
    /\ UNCHANGED <<request, auth, retrievalVars, cacheVars>>

(***************************************************************************)
(* ------------------- Redis configuration and cache --------------------- *)
(***************************************************************************)

\* Bound on the number of initRedis calls in a run.
MaxInitCalls == 3

NullClient == "null"
TheClient == "client"

Keys == {"k1"}

\* JavaScript values handed to set / returned by get, as tokens:
\* the number 1, the string 'a', null, undefined, an object that holds itself.
JsNull == "null"
SetValues == {"num:1", "str:a", JsNull, "undefined", "circular"}

\* Strings a key can hold in the store: written by set, or by anyone else.
StoredStrings == {"1", "\"a\"", "null", "", "{bad"}

\* JSON.stringify(value): a string, `undefined` for undefined, or a TypeError.
JSONstringify(v) ==
    CASE v = "num:1" -> [throws |-> FALSE, text |-> "1"]
      [] v = "str:a" -> [throws |-> FALSE, text |-> "\"a\""]
      [] v = JsNull -> [throws |-> FALSE, text |-> "null"]
      [] v = "undefined" -> [throws |-> FALSE, text |-> "undefined"]
      [] OTHER -> [throws |-> TRUE, text |-> "undefined"]

\* JSON.parse(text): the value, or a SyntaxError.
JSONparse(text) ==
    CASE text = "1" -> [throws |-> FALSE, value |-> "num:1"]
      [] text = "\"a\"" -> [throws |-> FALSE, value |-> "str:a"]
      [] text = "null" -> [throws |-> FALSE, value |-> JsNull]
      [] OTHER -> [throws |-> TRUE, value |-> "undefined"]

\* What a command sent through the client does: the promise rejects, or it
\* resolves; a GET resolves to the stored string, or to null for no such key.
StoreReplies(phase, held) ==
    {[rejects |-> TRUE, missing |-> TRUE, text |-> ""]}
        \cup (IF phase \in {"connecting", "ready"}
              THEN {[rejects |-> FALSE, missing |-> held.missing, text |-> held.text]}
              ELSE {})

\* storeCalled: client.get / client.set was invoked.
Outcome(result, raised, storeCalled) ==
    [result |-> result, raised |-> raised, storeCalled |-> storeCalled]

\* get(key), given what client.get(key) does if it is called.
CacheGetNoCatch(avail, cl, isOpen, reply) ==
    IF ~avail THEN Outcome(JsNull, FALSE, FALSE)
    ELSE IF cl = NullClient \/ ~isOpen THEN Outcome(JsNull, FALSE, FALSE)
    ELSE IF reply.rejects THEN Outcome("undefined", TRUE, TRUE)
    ELSE IF reply.missing \/ reply.text = "" THEN Outcome(JsNull, FALSE, TRUE)
    ELSE IF JSONparse(reply.text).throws THEN Outcome("undefined", TRUE, TRUE)
    ELSE Outcome(JSONparse(reply.text).value, FALSE, TRUE)
CacheGet(avail, cl, isOpen, reply) ==
    IF ~avail THEN Outcome(JsNull, FALSE, FALSE)                      \* !isAvailable()
    ELSE IF cl = NullClient \/ ~isOpen THEN Outcome(JsNull, FALSE, FALSE)
    ELSE IF reply.rejects THEN Outcome(JsNull, FALSE, TRUE)           \* catch
    ELSE IF reply.missing \/ reply.text = "" THEN Outcome(JsNull, FALSE, TRUE)
    ELSE IF JSONparse(reply.text).throws THEN Outcome(JsNull, FALSE, TRUE)   \* catch
    ELSE Outcome(JSONparse(reply.text).value, FALSE, TRUE)

\* set(key, value, ttlSeconds), given what client.set does if it is called.
\* `written` tells whether the store took the write.
CacheSet(avail, cl, isOpen, value, reply) ==
    IF ~avail THEN [result |-> "false", raised |-> FALSE, storeCalled |-> FALSE, written |-> FALSE]
    ELSE IF cl = NullClient \/ ~isOpen
    THEN [result |-> "false", raised |-> FALSE, storeCalled |-> FALSE, written |-> FALSE]
    ELSE IF JSONstringify(value).throws
    THEN [result |-> "false", raised |-> FALSE, storeCalled |-> FALSE, written |-> FALSE]
    ELSE IF JSONstringify(value).text = "undefined" \/ reply.rejects
    \* the client refuses an argument that is not a string, or the command fails
    THEN [result |-> "false", raised |-> FALSE, storeCalled |-> TRUE, written |-> FALSE]
    ELSE [result |-> "true", raised |-> FALSE, storeCalled |-> TRUE, written |-> TRUE]

\* The catch block of initRedis.
InitRedisCatchKeepsFlag(avail) == [client |-> NullClient, redisAvailable |-> avail]
InitRedisCatch(avail) == [client |-> NullClient, redisAvailable |-> FALSE]

NoEntry == [missing |-> TRUE, text |-> ""]
NoOp ==
    [op |-> "none", key |-> "k1", phase |-> "none", isOpen |-> FALSE, afterFail |-> FALSE,
     reply |-> [rejects |-> TRUE, missing |-> TRUE, text |-> ""],
     result |-> JsNull, raised |-> FALSE, storeCalled |-> FALSE]

\* The module has been loaded; initRedis has not run.
CacheInit ==
    /\ client = NullClient
    /\ redisAvailable = FALSE
    /\ conn = [phase |-> "none", isOpen |-> FALSE, connectEmitted |-> FALSE]
    /\ store \in [Keys -> {NoEntry}]
    /\ hist = [initCalls |-> 0, attempts |-> 0, startupFailed |-> FALSE, initAfterFail |-> 0]
    /\ lastOp = NoOp

\* initRedis() up to `await client.connect()` (app.js calls it at startup).
InitRedis ==
    /\ hist.initCalls < MaxInitCalls
    /\ IF client # NullClient
       THEN /\ UNCHANGED <<client, conn>>                              \* return client
            /\ hist' = [hist EXCEPT !.initCalls = @ + 1,
                           !.initAfterFail = IF hist.startupFailed THEN @ + 1 ELSE @]
       ELSE /\ client' = TheClient
            /\ conn' = [phase |-> "connecting", isOpen |-> TRUE, connectEmitted |-> FALSE]
            /\ hist' = [hist EXCEPT !.initCalls = @ + 1, !.attempts = @ + 1,
                           !.initAfterFail = IF hist.startupFailed THEN @ + 1 ELSE @]
    /\ UNCHANGED <<redisAvailable, store, lastOp, retrievalVars, authVars>>

\* The client emits 'connect' once its socket is connected.
OnConnect ==
    /\ conn.phase = "connecting"
    /\ ~conn.connectEmitted
    /\ redisAvailable' = TRUE
    /\ conn' = [conn EXCEPT !.connectEmitted = TRUE]
    /\ UNCHANGED <<client, store, hist, lastOp, retrievalVars, authVars>>

\* client.connect() resolves.
ConnectResolved ==
    /\ conn.phase = "connecting"
    /\ conn.connectEmitted
    /\ redisAvailable' = TRUE
    /\ conn' = [conn EXCEPT !.phase = "ready"]
    /\ UNCHANGED <<client, store, hist, lastOp, retrievalVars, authVars>>

\* client.connect() rejects: the catch block runs. With reconnectStrategy
\* false the discarded client connects no more.
ConnectRejected ==
    /\ conn.phase = "connecting"
    /\ client' = InitRedisCatch(redisAvailable).client
    /\ redisAvailable' = InitRedisCatch(redisAvailable).redisAvailable
    /\ conn' = [conn EXCEPT !.phase = "failed", !.isOpen = FALSE]
    /\ hist' = [hist EXCEPT !.startupFailed = @ \/ hist.attempts = 1]
    /\ UNCHANGED <<store, lastOp, retrievalVars, authVars>>

\* The connection is lost after it was ready: the client emits 'error', whose
\* handler does nothing; it does not reconnect. ('error' events in any other
\* state run the same empty handler and change nothing.) Whether the library then
\* reports isOpen as false depends on its version.
OnError ==
    /\ conn.phase = "ready"
    /\ \E open \in BOOLEAN : conn' = [conn EXCEPT !.phase = "closed", !.isOpen = open]
    /\ UNCHANGED <<client, redisAvailable, store, hist, lastOp, retrievalVars, authVars>>

\* A call of get(key).
Get ==
    \E key \in Keys : \E reply \in StoreReplies(conn.phase, store[key]) :
        LET out == CacheGet(redisAvailable, client, conn.isOpen, reply)
        IN  /\ lastOp' = [op |-> "get", key |-> key, phase |-> conn.phase,
                          isOpen |-> conn.isOpen, afterFail |-> hist.startupFailed,
                          reply |-> reply, result |-> out.result, raised |-> out.raised,
                          storeCalled |-> out.storeCalled]
            /\ UNCHANGED <<client, redisAvailable, conn, store, hist, retrievalVars, authVars>>

\* A call of set(key, value, ttlSeconds).
Set ==
    \E key \in Keys, value \in SetValues :
        \E reply \in StoreReplies(conn.phase, store[key]) :
            LET out == CacheSet(redisAvailable, client, conn.isOpen, value, reply)
            IN  /\ lastOp' = [op |-> "set", key |-> key, phase |-> conn.phase,
                              isOpen |-> conn.isOpen, afterFail |-> hist.startupFailed,
                              reply |-> reply, result |-> out.result, raised |-> out.raised,
                              storeCalled |-> out.storeCalled]
                /\ store' = IF out.written
                            THEN [store EXCEPT ![key] =
                                     [missing |-> FALSE, text |-> JSONstringify(value).text]]
                            ELSE store
                /\ UNCHANGED <<client, redisAvailable, conn, hist, retrievalVars, authVars>>

\* The store drops a key whose time to live (EX ttlSeconds) has run out.
Expire ==
    \E key \in Keys :
        /\ ~store[key].missing
        /\ store' = [store EXCEPT ![key] = NoEntry]
        /\ UNCHANGED <<client, redisAvailable, conn, hist, lastOp, retrievalVars, authVars>>

\* Another writer of the same store puts a string under a key.
ForeignWrite ==
    \E key \in Keys, text \in StoredStrings :
        /\ store' = [store EXCEPT ![key] = [missing |-> FALSE, text |-> text]]
        /\ UNCHANGED <<client, redisAvailable, conn, hist, lastOp, retrievalVars, authVars>>

(***************************************************************************)
(* --------------------------- Specifications ---------------------------- *)
(***************************************************************************)

\* The table before any row of the migrated schema is written.
NoRows == chunks = {} /\ lastQuery = NoQuery

InitRetrieval == RetrievalInit /\ AuthInit /\ CacheInit
InitAuth == NoRows /\ AuthInit /\ CacheInit
InitCache == NoRows /\ AuthInit /\ CacheInit

NextRetrieval == InsertChunk \/ DeleteChunk \/ MatchDocuments \/ ReturnRows

NextAuth ==
    \/ NewRequest
    \/ AuthenticateBegin
    \/ AuthenticateResume
    \/ OptionalAuthBegin
    \/ OptionalAuthResume

NextCache ==
    \/ InitRedis
    \/ OnConnect
    \/ ConnectResolved
    \/ ConnectRejected
    \/ OnError
    \/ Get
    \/ Set
    \/ Expire
    \/ ForeignWrite

SpecRetrieval == InitRetrieval /\ [][NextRetrieval]_vars
SpecAuth == InitAuth /\ [][NextAuth]_vars
SpecCache == InitCache /\ [][NextCache]_vars

(***************************************************************************)
(* ------------------------------ Claims --------------------------------- *)
(***************************************************************************)

\* The stored row a returned row was made from.
RowOf(id) == CHOOSE row \in chunks : row.id = id
Returned == {lastQuery.result[i].id : i \in 1..Len(lastQuery.result)}

\* C1: a call with p_user_id = u1 returns only chunks whose user_id is u1
\* (never another user's chunk and never a chunk with user_id NULL), whoever
\* calls; when u1 owns no chunk the result is the empty list.
C1_OwnerFilter ==
    (lastQuery.called /\ lastQuery.p_user_id # NULL) =>
        /\ \A id \in Returned :
              RowOf(id).user_id # NULL /\ RowOf(id).user_id = lastQuery.p_user_id
        /\ (\A row \in chunks : row.user_id # lastQuery.p_user_id)
              => lastQuery.result = <<>>

\* C1 witness: a search scoped to u1, run with row security bypassed, returns
\* u1's chunk although a chunk of another owner is more similar to the query.
C1_Witness ==
    /\ lastQuery.called
    /\ lastQuery.caller.bypassrls
    /\ lastQuery.p_user_id = "u1"
    /\ Len(lastQuery.result) = 1
    /\ lastQuery.match_count = 2
    /\ \E other \in chunks :
          /\ other.user_id = "u2"
          /\ \A mine \in chunks :
                mine.user_id = "u1" =>
                    Similarity(other.embedding, lastQuery.query_embedding)
                        > Similarity(mine.embedding, lastQuery.query_embedding)

\* C2: whatever p_user_id is (NULL and another user's id included), a caller
\* that row level security applies to gets only chunks whose user_id equals
\* its own auth.uid(); an anonymous caller gets none.
C2_RowSecurity ==
    (lastQuery.called /\ ~lastQuery.caller.bypassrls) =>
        \A id \in Returned :
            RowOf(id).user_id # NULL /\ RowOf(id).user_id = lastQuery.caller.uid

\* C2 witness: u1 searches unscoped (p_user_id NULL) while u2 owns a chunk
\* that passes the threshold, and gets its own chunk only.
C2_Witness ==
    /\ lastQuery.called
    /\ lastQuery.caller = [uid |-> "u1", bypassrls |-> FALSE]
    /\ lastQuery.p_user_id = NULL
    /\ lastQuery.match_count = 2
    /\ Len(lastQuery.result) = 1
    /\ \E other \in chunks :
          /\ other.user_id = "u2"
          /\ Similarity(other.embedding, lastQuery.query_embedding)
                > lastQuery.match_threshold

\* The chunks the call may return: readable by the caller, of the owner asked
\* for, and more similar to the query than the threshold.
Eligible ==
    {row \in chunks :
        /\ \/ lastQuery.caller.bypassrls
           \/ (row.user_id \in Users /\ row.user_id = lastQuery.caller.uid)
        /\ \/ lastQuery.p_user_id = NULL
           \/ (row.user_id \in Users /\ row.user_id = lastQuery.p_user_id)
        /\ 100 * Dot(row.embedding, lastQuery.query_embedding)
              > lastQuery.match_threshold * Norm(row.embedding) * Norm(lastQuery.query_embedding)}

\* C9: the result is the first match_count eligible chunks by descending
\* similarity: each returned row is an eligible chunk reported with its own
\* similarity, above the threshold; rows are in descending order and
\* distinct; no eligible chunk that was left out is more similar than a
\* returned one; the length is min(match_count, number of eligible chunks);
\* match_count = 0 and a threshold of 1.0 or more give the empty list.
C9_Ranking ==
    lastQuery.called =>
        LET res == lastQuery.result
            n == Len(res)
        IN  /\ n = Min(lastQuery.match_count, Cardinality(Eligible))
            /\ n <= lastQuery.match_count
            /\ \A i \in 1..n :
                  /\ RowOf(res[i].id) \in Eligible
                  /\ res[i].similarity > lastQuery.match_threshold
                  /\ res[i].similarity * Norm(RowOf(res[i].id).embedding)
                         * Norm(lastQuery.query_embedding)
                       = 100 * Dot(RowOf(res[i].id).embedding, lastQuery.query_embedding)
            /\ \A i, j \in 1..n :
                  /\ i < j => res[i].similarity >= res[j].similarity
                  /\ i # j => res[i].id # res[j].id
            /\ \A row \in Eligible :
                  row.id \notin Returned =>
                      \A i \in 1..n :
                          Similarity(row.embedding, lastQuery.query_embedding)
                              <= res[i].similarity
            /\ lastQuery.match_count = 0 => res = <<>>
            /\ lastQuery.match_threshold >= 100 => res = <<>>

\* C9 witness: two eligible chunks of different similarity
\* and match_count = 1: the more similar one is returned, the other cut off.
C9_Witness ==
    /\ lastQuery.called
    /\ lastQuery.match_count = 1
    /\ Len(lastQuery.result) = 1
    /\ \E row \in Eligible :
          /\ row.id \notin Returned
          /\ Similarity(row.embedding, lastQuery.query_embedding)
                < lastQuery.result[1].similarity

\* The header values of the model that have the 8-4-4-4-12 hex form.
WellFormedUuids == {UuidLower, UuidUpper}

AuthRequired == AppError("Authentication required. Please sign in.", 401)
FormatError == AppError("Invalid user ID format", 400)
Continued(run) == Finished(run) /\ run.next = <<NoError>>
VerifiedUser ==
    /\ ~request.verification.throws
    /\ ~request.verification.error
    /\ request.verification.user # Undefined
\* The request presents 'Authorization: Bearer <token>'.
PresentsBearer ==
    /\ request.authorization # Undefined
    /\ Len(request.authorization) >= 7
    /\ SubSeq(request.authorization, 1, 7) = <<"B", "e", "a", "r", "e", "r", " ">>

\* Where req.userId comes from when authenticate continues without error, and
\* the failure of a request in production mode without a bearer token.
ProvenanceOfIdentity ==
    /\ Continued(auth) =>
          \/ /\ PresentsBearer
             /\ VerifiedUser
             /\ auth.userId = request.verification.user
          \/ /\ ~PresentsBearer
             /\ request.nodeEnv # "production"
             /\ auth.userId = request.xUserId
             /\ request.xUserId \in WellFormedUuids
    /\ (Finished(auth) /\ request.nodeEnv = "production" /\ ~PresentsBearer) =>
          (auth.next = <<AuthRequired>> /\ auth.userId = Undefined)

\* C3 as stated: provenance, and outside production every X-User-Id header
\* that is not of UUID form (on a request without bearer token) fails with
\* the format error.
C3_AsStated ==
    /\ ProvenanceOfIdentity
    /\ (/\ Finished(auth)
        /\ request.nodeEnv # "production"
        /\ ~PresentsBearer
        /\ request.xUserId # Undefined
        /\ request.xUserId \notin WellFormedUuids) =>
          (auth.next = <<FormatError>> /\ auth.userId = Undefined)

\* C3, amended: provenance as stated; outside production a request without
\* bearer token whose X-User-Id is non-empty and not of UUID form fails with
\* the format error (400), and one whose X-User-Id is absent or empty fails
\* with 'authentication required' (401); neither attaches an identifier.
C3_Provenance ==
    /\ ProvenanceOfIdentity
    /\ (/\ Finished(auth)
        /\ request.nodeEnv # "production"
        /\ ~PresentsBearer
        /\ request.xUserId \notin {Undefined, <<>>}
        /\ request.xUserId \notin WellFormedUuids) =>
          (auth.next = <<FormatError>> /\ auth.userId = Undefined)
    /\ (/\ Finished(auth)
        /\ request.nodeEnv # "production"
        /\ ~PresentsBearer
        /\ request.xUserId \in {Undefined, <<>>}) =>
          (auth.next = <<AuthRequired>> /\ auth.userId = Undefined)

\* C3 witness: production mode, no bearer token, a well-formed X-User-Id:
\* authenticate has ended with 'authentication required'.
C3_Witness ==
    /\ Finished(auth)
    /\ request.nodeEnv = "production"
    /\ ~PresentsBearer
    /\ request.xUserId = UuidLower
    /\ auth.next = <<AuthRequired>>

\* C4: with a bearer token whose verification does not succeed, authenticate
\* ends with one 401 error and no identifier, whatever X-User-Id holds.
C4_NoFallback ==
    (Finished(auth) /\ PresentsBearer /\ ~VerifiedUser) =>
        /\ Len(auth.next) = 1
        /\ auth.next[1].status = 401
        /\ auth.userId = Undefined

\* C4 witness: development mode, a well-formed X-User-Id, a bearer token the
\* provider rejects: the request has ended with a 401.
C4_Witness ==
    /\ Finished(auth)
    /\ PresentsBearer
    /\ request.verification.error
    /\ request.nodeEnv = "development"
    /\ request.xUserId = UuidLower
    /\ auth.next[1].status = 401

\* C5: optionalAuth passes no error to next, in any state; without
\* credentials and after a throw of the verification call the request stays
\* without identifier.
C5_OptionalNeverFails ==
    /\ \A i \in 1..Len(opt.next) : opt.next[i] = NoError
    /\ Finished(opt) => opt.next = <<NoError>>
    /\ (/\ Finished(opt)
        /\ \/ (~PresentsBearer /\ request.xUserId = Undefined)
           \/ (PresentsBearer /\ request.verification.throws)) =>
          opt.userId = Undefined

\* C5 witness: the verification call threw and optionalAuth has continued.
C5_Witness ==
    /\ Finished(opt)
    /\ PresentsBearer
    /\ request.verification.throws
    /\ opt.next = <<NoError>>

\* C6: on the same request and the same answer of the provider, optionalAuth
\* attaches u exactly when authenticate continues with u, and attaches
\* nothing when authenticate fails.
C6_SameResolution ==
    (Finished(auth) /\ Finished(opt)) =>
        IF Continued(auth)
        THEN auth.userId # Undefined /\ opt.userId = auth.userId
        ELSE opt.userId = Undefined

\* C6 witness: authenticate has failed on a malformed X-User-Id in
\* development mode and optionalAuth has run on the same request.
C6_Witness ==
    /\ Finished(auth)
    /\ Finished(opt)
    /\ ~PresentsBearer
    /\ request.nodeEnv = "development"
    /\ request.xUserId = [UuidLower EXCEPT ![3] = "g"]
    /\ auth.next = <<FormatError>>

\* C10: each middleware calls next at most once while it runs and exactly
\* once by its end, and issues at most one verification call; authenticate
\* has attached an identifier only if it has continued without error.
C10_ExactlyOnce ==
    /\ \A run \in {auth, opt} :
          /\ Len(run.next) <= 1
          /\ run.verifyCalls <= 1
          /\ Finished(run) => Len(run.next) = 1
          /\ run.pc \in {"start", "await"} => Len(run.next) = 0
          /\ run.verifyCalls = 1 => PresentsBearer
    /\ auth.userId # Undefined => Continued(auth)

\* C10 witness: both middlewares have ended a request with a bearer token,
\* each after one verification call.
C10_Witness ==
    /\ Finished(auth)
    /\ Finished(opt)
    /\ auth.verifyCalls = 1
    /\ opt.verifyCalls = 1
    /\ Len(auth.next) = 1
    /\ Len(opt.next) = 1

\* What get and set may hand back.
DecodedValues == {"num:1", "str:a", JsNull}
Disabled(op) ==
    /\ ~op.storeCalled
    /\ op.result = (IF op.op = "get" THEN JsNull ELSE "false")

\* C7: get and set never raise; get returns a decoded value or null and set
\* returns true or false; before initRedis, after a failed startup and with
\* a closed client they return null / false without calling the store; a
\* failing store call gives null / false; a stored string that does not
\* decode gives null, and one that decodes gives the value it encodes.
C7_BestEffort ==
    lastOp.op # "none" =>
        /\ ~lastOp.raised
        /\ lastOp.op = "get" => lastOp.result \in DecodedValues
        /\ lastOp.op = "set" => lastOp.result \in {"true", "false"}
        /\ (lastOp.phase \in {"none", "failed"} \/ ~lastOp.isOpen) => Disabled(lastOp)
        /\ (lastOp.storeCalled /\ lastOp.reply.rejects) =>
              lastOp.result = (IF lastOp.op = "get" THEN JsNull ELSE "false")
        /\ (lastOp.op = "get" /\ lastOp.storeCalled /\ ~lastOp.reply.rejects) =>
              lastOp.result =
                  CASE lastOp.reply.missing -> JsNull
                    [] lastOp.reply.text = "1" -> "num:1"
                    [] lastOp.reply.text = "\"a\"" -> "str:a"
                    [] OTHER -> JsNull

\* C7 witness: a get on a connected client read a string that is not JSON and
\* returned null.
C7_Witness ==
    /\ lastOp.op = "get"
    /\ lastOp.phase = "ready"
    /\ lastOp.storeCalled
    /\ ~lastOp.reply.rejects
    /\ ~lastOp.reply.missing
    /\ lastOp.reply.text = "{bad"
    /\ lastOp.result = JsNull

\* The cache is off: no client, not available, and every get and set since
\* the startup failure returned null / false without a store call.
CacheOff ==
    /\ client = NullClient
    /\ ~redisAvailable
    /\ conn.phase = "failed"
    /\ lastOp.afterFail => Disabled(lastOp)

\* C8 as stated: once the first connection attempt has failed the cache is off
\* for good and no further attempt is made, whatever is called afterwards.
C8_AsStated == hist.startupFailed => (CacheOff /\ hist.attempts = 1)

\* C8, amended: once the first connection attempt has failed the cache is off
\* and stays off, with no further connection attempt, under every get, set
\* and client event, for as long as initRedis is not called again (app.js
\* calls it once, at startup); a later initRedis call makes a new attempt.
C8_DisabledUntilReinit ==
    (hist.startupFailed /\ hist.initAfterFail = 0) => (CacheOff /\ hist.attempts = 1)

\* C8 witness: the socket had connected ('connect' was emitted) before the
\* startup attempt failed; a later get found the cache off while the store
\* holds the key.
C8_Witness ==
    /\ hist.startupFailed
    /\ hist.initAfterFail = 0
    /\ conn.connectEmitted
    /\ lastOp.op = "get"
    /\ lastOp.afterFail
    /\ ~store[lastOp.key].missing

====
